---- MODULE Spec2Model ----
(***************************************************************************)
(* Model of the IoTaWatt sensor platform (src/sensor.py): the unit table,  *)
(* the entity factory of async_setup_entry and the IotaWattSensor adapter. *)
(*                                                                         *)
(* Numeric sensor values are fixed-point tenths (1000.1 is 10001).         *)
(* An optional value (Python None or a value) is the empty or the          *)
(* one-element sequence.                                                   *)
(***************************************************************************)
EXTENDS Integers, Sequences, FiniteSets, TLC

VARIABLES
    data,       \* coordinator.data["sensors"]: key -> sensor entry
    phase,      \* "init": before setup; "pending": setup returned, its
                \* generator argument not yet iterated by the host;
                \* "ready": the host has iterated it
    setupKeys,  \* the key collection the generator of line 157 iterates
    created,    \* the factory's tracking set (line 140)
    adapters,   \* every IotaWattSensor constructed so far, in order
    pending,    \* listeners still to be called for the current refresh, in
                \* ascending order: 0 is new_data_received (subscribed
                \* first, line 169), i > 0 is adapters[i]
    last        \* what the last operation did

vars == <<data, phase, setupKeys, created, adapters, pending, last>>

---------------------------------------------------------------------------
(* Bounds *)

MaxKeys == 2
MaxRemovals == 2

Keys == 1..MaxKeys

---------------------------------------------------------------------------
(* Optional values and fixed-point numbers *)

None == <<>>
Some(x) == <<x>>

Deci(x) == x * 10

---------------------------------------------------------------------------
(* The unit table, lines 39-130 *)

\* IotaWattSensorEntityDescription(key): every optional field at its default
IotaWattSensorEntityDescription(key) ==
    [key |-> key, unit |-> "", device_class |-> "",
     value |-> None, min_value |-> None, max_value |-> None]

Desc(key, unit, class, value, lo, hi) ==
    [key |-> key, unit |-> unit, device_class |-> class,
     value |-> value, min_value |-> Some(lo), max_value |-> Some(hi)]

TableUnits ==
    {"Amps", "Hz", "PF", "Watts", "WattHours", "VA", "VAR", "VARh", "Volts"}

ENTITY_DESCRIPTION_KEY_MAP ==
    [u \in TableUnits |->
        CASE u = "Amps"      -> Desc(u, "A", "current", None, Deci(-1000), Deci(1000))
          [] u = "Hz"        -> Desc(u, "Hz", "frequency", None, Deci(0), Deci(1000))
          [] u = "PF"        -> Desc(u, "%", "power_factor", Some(100), Deci(0), Deci(100))
          [] u = "Watts"     -> Desc(u, "W", "power", None, Deci(-100000), Deci(100000))
          [] u = "WattHours" -> Desc(u, "Wh", "energy", None, Deci(-1000000), Deci(1000000))
          [] u = "VA"        -> Desc(u, "VA", "apparent_power", None, Deci(-100000), Deci(100000))
          [] u = "VAR"       -> Desc(u, "var", "", None, Deci(-100000), Deci(100000))
          [] u = "VARh"      -> Desc(u, "varh", "", None, Deci(-1000000), Deci(1000000))
          [] u = "Volts"     -> Desc(u, "V", "voltage", None, Deci(0), Deci(1000))]

\* faulty variant: the lookup ignores the case of the first letter
GetDescriptionAnyCase(unit) ==
    IF unit \in DOMAIN ENTITY_DESCRIPTION_KEY_MAP
    THEN ENTITY_DESCRIPTION_KEY_MAP[unit]
    ELSE IF unit = "amps"
    THEN ENTITY_DESCRIPTION_KEY_MAP["Amps"]
    ELSE IotaWattSensorEntityDescription("base_sensor")

\* ENTITY_DESCRIPTION_KEY_MAP.get(unit, IotaWattSensorEntityDescription("base_sensor"))
GetDescription(unit) ==
    IF unit \in DOMAIN ENTITY_DESCRIPTION_KEY_MAP
    THEN ENTITY_DESCRIPTION_KEY_MAP[unit]
    ELSE IotaWattSensorEntityDescription("base_sensor")

---------------------------------------------------------------------------
(* Begin timestamps and dt.parse_datetime, lines 221-224 *)

\* A begin value as getBegin() returns it: None, or a string that is empty,
\* free text, or date-time text with the fields below (UTC).
NoBegin == [kind |-> "none", y |-> 0, mo |-> 0, d |-> 0, h |-> 0, mi |-> 0, s |-> 0]
EmptyBegin == [NoBegin EXCEPT !.kind = "empty"]
TextBegin == [NoBegin EXCEPT !.kind = "text"]
IsoBegin(y, mo, d, h, mi, s) ==
    [kind |-> "iso", y |-> y, mo |-> mo, d |-> d, h |-> h, mi |-> mi, s |-> s]

\* truth value of the string: None and "" are falsy
Truthy(begin) == begin.kind \notin {"none", "empty"}

IsLeap(y) == (y % 4 = 0 /\ y % 100 # 0) \/ y % 400 = 0

DaysInMonth(y, mo) ==
    CASE mo \in {4, 6, 9, 11} -> 30
      [] mo = 2 -> IF IsLeap(y) THEN 29 ELSE 28
      [] OTHER -> 31

RECURSIVE DaysBeforeMonth(_, _)
DaysBeforeMonth(y, mo) ==
    IF mo <= 1 THEN 0 ELSE DaysBeforeMonth(y, mo - 1) + DaysInMonth(y, mo - 1)

RECURSIVE DaysBeforeYear(_)
DaysBeforeYear(y) ==
    IF y <= 1970 THEN 0
    ELSE DaysBeforeYear(y - 1) + (IF IsLeap(y - 1) THEN 366 ELSE 365)

\* dt.parse_datetime(begin): the datetime the text denotes, None when the
\* text is not a date-time
parse_datetime(begin) ==
    IF /\ begin.kind = "iso"
       /\ begin.y >= 1970
       /\ begin.mo \in 1..12
       /\ begin.d \in 1..DaysInMonth(begin.y, begin.mo)
       /\ begin.h \in 0..23 /\ begin.mi \in 0..59 /\ begin.s \in 0..59
    THEN Some([y |-> begin.y, mo |-> begin.mo, d |-> begin.d,
               h |-> begin.h, mi |-> begin.mi, s |-> begin.s])
    ELSE None

\* datetime.timestamp(): seconds since the Unix epoch
timestamp(t) ==
    (DaysBeforeYear(t.y) + DaysBeforeMonth(t.y, t.mo) + (t.d - 1)) * 86400
    + t.h * 3600 + t.mi * 60 + t.s

\* the threshold of line 224
RESET_THRESHOLD == 86400

---------------------------------------------------------------------------
(* Sensor entries of a snapshot (the device client's Sensor objects) *)

Sensor(unit, value, begin, id, type) ==
    [unit |-> unit, value |-> value, begin |-> begin, id |-> id,
     type |-> type, name |-> "sensor", channel |-> 1, hub_mac_address |-> "mac"]

\* every snapshot over the keys K with entries drawn from E
Snapshots(K, E) == UNION {[D -> E] : D \in SUBSET K}

\* every order in which the keys of S can be iterated
Orders(S) ==
    {o \in [1..Cardinality(S) -> S] : \A i, j \in 1..Cardinality(S) : o[i] = o[j] => i = j}

---------------------------------------------------------------------------
(* What an operation reports in `last` *)

Report(op, a) ==
    [op |-> op, a |-> a, raised |-> FALSE, result |-> None, warnings |-> 0,
     removal |-> "", base |-> FALSE, wrote |-> FALSE, new |-> {}]

\* the listener the coordinator calls next
NextListener == CHOOSE l \in pending : \A m \in pending : l <= m

Live(a) == adapters[a].status \in {"created", "added", "removing"}
Subscribed(a) == adapters[a].status \in {"added", "removing"}

---------------------------------------------------------------------------
(* The factory, lines 133-169 *)

\* IotaWattSensor.__init__, lines 177-188: the unique id is read from the
\* snapshot once; unit0 records the unit the description was chosen for
IotaWattSensor(key, entity_description) ==
    [key |-> key,
     unique_id |-> data[key].id,
     entity_description |-> entity_description,
     last_reset |-> None,
     status |-> "created",
     removals |-> 0,
     unit0 |-> data[key].unit]

\* _create_entity, lines 142-155, given the tracking set and the adapters
\* made so far: the key joins `created` first, then the snapshot is indexed
\* (KeyError when the key is not in it), then the adapter is constructed
_create_entity(key, cr, ads) ==
    IF key \notin DOMAIN data
    THEN [created |-> cr \cup {key}, adapters |-> ads, raised |-> TRUE]
    ELSE [created |-> cr \cup {key},
          adapters |-> Append(ads, IotaWattSensor(key, GetDescription(data[key].unit))),
          raised |-> FALSE]

\* _create_entity for the keys of `order` in turn, until one raises
RECURSIVE CreateEntities(_, _, _)
CreateEntities(order, cr, ads) ==
    IF order = <<>>
    THEN [created |-> cr, adapters |-> ads, raised |-> FALSE]
    ELSE LET r == _create_entity(Head(order), cr, ads)
         IN  IF r.raised THEN r
             ELSE CreateEntities(Tail(order), r.created, r.adapters)

\* faulty variant: the filter of line 165 is missing
NewKeysUnfiltered == DOMAIN data

\* the keys new_data_received creates adapters for, lines 162-166
NewKeys == {key \in DOMAIN data : key \notin created}

\* async_setup_entry, lines 133-169: the generator expression of line 157
\* binds the current key collection and is handed to the host unevaluated;
\* the listener is installed
async_setup_entry ==
    /\ phase = "init"
    /\ phase' = "pending"
    /\ setupKeys' = DOMAIN data
    /\ last' = Report("setup", 0)
    /\ UNCHANGED <<data, created, adapters, pending>>

\* the host iterates the generator of line 157: _create_entity runs for each
\* key of the collection bound at setup, against the snapshot current now.
\* A KeyError ends the iteration and the host registers nothing of the batch.
AddSetupEntities ==
    /\ phase = "pending"
    /\ pending = {}
    /\ \E order \in Orders(setupKeys) :
         LET r == CreateEntities(order, created, adapters)
             n == Len(adapters)
         IN  /\ created' = r.created
             /\ adapters' =
                  IF r.raised
                  THEN [i \in 1..Len(r.adapters) |->
                          IF i > n THEN [r.adapters[i] EXCEPT !.status = "discarded"]
                          ELSE r.adapters[i]]
                  ELSE r.adapters
             /\ last' = [Report("add_setup_entities", 0) EXCEPT
                           !.raised = r.raised,
                           !.new = {r.adapters[i].key : i \in n+1..Len(r.adapters)}]
    /\ phase' = "ready"
    /\ UNCHANGED <<data, setupKeys, pending>>

\* new_data_received, lines 159-167
new_data_received ==
    /\ pending # {}
    /\ NextListener = 0
    /\ \E order \in Orders(NewKeys) :
         LET r == CreateEntities(order, created, adapters)
         IN  /\ created' = r.created
             /\ adapters' = r.adapters
             /\ last' = [Report("new_data", 0) EXCEPT
                           !.raised = r.raised,
                           !.new = {r.adapters[i].key : i \in Len(adapters)+1..Len(r.adapters)}]
    /\ pending' = pending \ {0}
    /\ UNCHANGED <<data, phase, setupKeys>>

---------------------------------------------------------------------------
(* The coordinator and the host *)

\* the coordinator replaces the snapshot and notifies its listeners: they are
\* called one after the other, and no host task runs until all have been
\* (the removal count of a subscribed adapter is capped at MaxRemovals)
Refresh(snapshot) ==
    /\ phase # "init"
    /\ pending = {}
    /\ \A a \in 1..Len(adapters) : Subscribed(a) => adapters[a].removals < MaxRemovals
    /\ data' = snapshot
    /\ pending' = {0} \cup {a \in 1..Len(adapters) : Subscribed(a)}
    /\ last' = Report("refresh", 0)
    /\ UNCHANGED <<phase, setupKeys, created, adapters>>

\* the host adds an adapter it was handed: the adapter subscribes
HostAdd(a) ==
    /\ pending = {}
    /\ adapters[a].status = "created"
    /\ adapters' = [adapters EXCEPT ![a].status = "added"]
    /\ last' = Report("host_add", a)
    /\ UNCHANGED <<data, phase, setupKeys, created, pending>>

\* the host carries out a requested removal: the adapter unsubscribes and
\* is never used again
HostRemove(a) ==
    /\ pending = {}
    /\ adapters[a].status = "removing"
    /\ adapters' = [adapters EXCEPT ![a].status = "removed"]
    /\ last' = Report("host_remove", a)
    /\ UNCHANGED <<data, phase, setupKeys, created, pending>>

---------------------------------------------------------------------------
(* The adapter, lines 172-256 *)

\* faulty variant: the comparison of line 224 admits the threshold itself
NextLastResetInclusive(begin, old) ==
    IF Truthy(begin) /\ parse_datetime(begin) # None
    THEN IF timestamp(parse_datetime(begin)[1]) >= RESET_THRESHOLD
         THEN parse_datetime(begin)
         ELSE None
    ELSE old

\* the last-reset marker after lines 221-227
NextLastReset(begin, old) ==
    IF Truthy(begin) /\ parse_datetime(begin) # None
    THEN IF timestamp(parse_datetime(begin)[1]) > RESET_THRESHOLD
         THEN parse_datetime(begin)
         ELSE None
    ELSE old

\* whether lines 221-227 assign the marker
WritesLastReset(begin) == Truthy(begin) /\ parse_datetime(begin) # None

\* the removal lines 215-218 request
RemovalFor(unique_id) == IF unique_id # "" THEN "registry" ELSE "self"

\* _handle_coordinator_update, lines 211-229
_handle_coordinator_update(a) ==
    /\ pending # {}
    /\ a = NextListener
    /\ IF adapters[a].key \notin DOMAIN data
       THEN /\ adapters' = [adapters EXCEPT ![a].status = "removing",
                                            ![a].removals = @ + 1]
            /\ last' = [Report("update", a) EXCEPT
                          !.removal = RemovalFor(adapters[a].unique_id)]
       ELSE LET begin == data[adapters[a].key].begin
            IN  /\ adapters' = [adapters EXCEPT
                                  ![a].last_reset = NextLastReset(begin, @)]
                /\ last' = [Report("update", a) EXCEPT
                              !.wrote = WritesLastReset(begin),
                              !.base = TRUE]
    /\ pending' = pending \ {a}
    /\ UNCHANGED <<data, phase, setupKeys, created>>

\* faulty variant: the bounds are tested on the value before the transform
NativeValueRawBounds(description, sensor) ==
    LET value == IF description.value # None
                 THEN sensor.value * description.value[1]
                 ELSE sensor.value
    IN  IF description.min_value # None /\ sensor.value < description.min_value[1]
        THEN [result |-> None, warnings |-> 1]
        ELSE IF description.max_value # None /\ sensor.value > description.max_value[1]
        THEN [result |-> None, warnings |-> 1]
        ELSE [result |-> Some(value), warnings |-> 0]

\* native_value, lines 241-256, on a sensor entry
native_value(description, sensor) ==
    LET value == IF description.value # None
                 THEN sensor.value * description.value[1]
                 ELSE sensor.value
    IN  IF description.min_value # None /\ value < description.min_value[1]
        THEN [result |-> None, warnings |-> 1]
        ELSE IF description.max_value # None /\ value > description.max_value[1]
        THEN [result |-> None, warnings |-> 1]
        ELSE [result |-> Some(value), warnings |-> 0]

\* extra_state_attributes, lines 231-239
extra_state_attributes(sensor) ==
    IF sensor.type = "Input"
    THEN [type |-> sensor.type, channel |-> Some(sensor.channel)]
    ELSE [type |-> sensor.type, channel |-> None]

\* a property read of adapter a: _sensor_data (lines 190-193) indexes the
\* current snapshot by the adapter's key and raises KeyError without it
ReadProperty(a, prop) ==
    /\ Live(a)
    /\ last' =
         IF adapters[a].key \notin DOMAIN data
         THEN [Report(prop, a) EXCEPT !.raised = TRUE]
         ELSE LET sensor == data[adapters[a].key]
              IN  CASE prop = "name" ->
                         [Report(prop, a) EXCEPT !.result = Some(sensor.name)]
                    [] prop = "device_info" ->
                         [Report(prop, a) EXCEPT !.result =
                            Some([connections |-> sensor.hub_mac_address,
                                  manufacturer |-> "IoTaWatt", model |-> "IoTaWatt"])]
                    [] prop = "extra_state_attributes" ->
                         [Report(prop, a) EXCEPT !.result =
                            Some(extra_state_attributes(sensor))]
                    [] prop = "native_value" ->
                         LET r == native_value(adapters[a].entity_description, sensor)
                         IN  [Report(prop, a) EXCEPT !.result = r.result,
                                                     !.warnings = r.warnings]
    /\ UNCHANGED <<data, phase, setupKeys, created, adapters, pending>>

Properties == {"name", "device_info", "extra_state_attributes", "native_value"}

---------------------------------------------------------------------------
(* Specifications *)

\* the steps of the program over the snapshots S
Step(S) ==
    \/ async_setup_entry
    \/ AddSetupEntities
    \/ new_data_received
    \/ \E snapshot \in S : Refresh(snapshot)
    \/ \E a \in 1..Len(adapters) : HostAdd(a)
    \/ \E a \in 1..Len(adapters) : HostRemove(a)
    \/ \E a \in 1..Len(adapters) : _handle_coordinator_update(a)
    \/ \E a \in 1..Len(adapters), prop \in Properties : ReadProperty(a, prop)

Start(S) ==
    /\ data \in S
    /\ phase = "init"
    /\ setupKeys = {}
    /\ created = {}
    /\ adapters = <<>>
    /\ pending = {}
    /\ last = Report("init", 0)

\* Lifecycle: several keys, sensors with and without a unique id
LifeSensors == {Sensor("Watts", 0, NoBegin, "id", "Input")}
LifeSnapshots == Snapshots(Keys, LifeSensors)

Init == Start(LifeSnapshots)
Next == Step(LifeSnapshots)
Spec == Init /\ [][Next]_vars

\* Removal: one sensor, with and without a unique id
RemovalSensors == {Sensor("Watts", 0, NoBegin, id, "Input") : id \in {"", "id"}}
RemovalSnapshots == Snapshots({1}, RemovalSensors)

InitRemoval == Start(RemovalSnapshots)
NextRemoval == Step(RemovalSnapshots)
SpecRemoval == InitRemoval /\ [][NextRemoval]_vars

\* Last reset: one sensor whose begin timestamp varies
Begins ==
    {NoBegin, EmptyBegin, TextBegin,
     IsoBegin(1970, 1, 1, 0, 0, 0),
     IsoBegin(1970, 1, 1, 23, 59, 59),
     IsoBegin(1970, 1, 2, 0, 0, 0),
     IsoBegin(1970, 1, 2, 0, 0, 1),
     IsoBegin(1970, 13, 1, 0, 0, 0),
     IsoBegin(2021, 2, 29, 0, 0, 0),
     IsoBegin(2021, 6, 15, 12, 30, 0)}
ResetSensors ==
    {Sensor("WattHours", 0, begin, "id", type) :
        begin \in Begins, type \in {"Input", "Output"}}
ResetSnapshots == Snapshots({1}, ResetSensors)

InitReset == Start(ResetSnapshots)
NextReset == Step(ResetSnapshots)
SpecReset == InitReset /\ [][NextReset]_vars

\* Units: one sensor whose reported unit varies, also to strings that are
\* not in the table
Units == TableUnits \cup {"amps", "gal"}
UnitSensors == {Sensor(unit, 12, NoBegin, "id", "Input") : unit \in Units}
UnitSnapshots == Snapshots({1}, UnitSensors)

InitUnits == Start(UnitSnapshots)
NextUnits == Step(UnitSnapshots)
SpecUnits == InitUnits /\ [][NextUnits]_vars

\* Values: one sensor whose value varies and whose unit, once an adapter
\* was made for it, stays. The values lie on and beside the bounds of the
\* unit's description, before its transform.
ValuesFor(unit) ==
    LET d == GetDescription(unit)
        m == IF d.value = None THEN 1 ELSE d.value[1]
    IN  IF d.min_value = None
        THEN {Deci(-2000000), 0, Deci(2000000)}
        ELSE {d.min_value[1] \div m + e : e \in -1..1}
             \cup {d.max_value[1] \div m + e : e \in -1..1}
             \cup {5, 12}
ValueSensors ==
    UNION {{Sensor(unit, value, NoBegin, "id", "Input") : value \in ValuesFor(unit)} :
             unit \in Units}
ValueSnapshots == Snapshots({1}, ValueSensors)
SameUnitSnapshots ==
    {snapshot \in ValueSnapshots :
        \A key \in DOMAIN snapshot, a \in 1..Len(adapters) :
            adapters[a].key = key => snapshot[key].unit = adapters[a].unit0}

InitValue == Start(ValueSnapshots)
NextValue == Step(SameUnitSnapshots)
SpecValue == InitValue /\ [][NextValue]_vars

---------------------------------------------------------------------------
(* The unit table as the specification gives it (section 4.1): the        *)
(* transform factor and the inclusive bounds of each raw unit             *)

SpecTable(unit) ==
    CASE unit = "Amps"      -> [factor |-> 1, lo |-> Some(Deci(-1000)), hi |-> Some(Deci(1000))]
      [] unit = "Hz"        -> [factor |-> 1, lo |-> Some(0), hi |-> Some(Deci(1000))]
      [] unit = "PF"        -> [factor |-> 100, lo |-> Some(0), hi |-> Some(Deci(100))]
      [] unit = "Watts"     -> [factor |-> 1, lo |-> Some(Deci(-100000)), hi |-> Some(Deci(100000))]
      [] unit = "WattHours" -> [factor |-> 1, lo |-> Some(Deci(-1000000)), hi |-> Some(Deci(1000000))]
      [] unit = "VA"        -> [factor |-> 1, lo |-> Some(Deci(-100000)), hi |-> Some(Deci(100000))]
      [] unit = "VAR"       -> [factor |-> 1, lo |-> Some(Deci(-100000)), hi |-> Some(Deci(100000))]
      [] unit = "VARh"      -> [factor |-> 1, lo |-> Some(Deci(-1000000)), hi |-> Some(Deci(1000000))]
      [] unit = "Volts"     -> [factor |-> 1, lo |-> Some(0), hi |-> Some(Deci(1000))]
      [] OTHER              -> [factor |-> 1, lo |-> None, hi |-> None]

\* the reference value of a reading `raw` under the table row of `unit`
ReferenceValue(unit, raw) ==
    LET row == SpecTable(unit)
        t == raw * row.factor
    IN  IF \/ (row.lo # None /\ t < row.lo[1])
           \/ (row.hi # None /\ t > row.hi[1])
        THEN [result |-> None, warnings |-> 1]
        ELSE [result |-> Some(t), warnings |-> 0]

AdapterIds == 1..Len(adapters)
KeyPresent(a) == adapters[a].key \in DOMAIN data
SensorOf(a) == data[adapters[a].key]

\* the last operation was adapter last.a handling an update notification
Handled == last.op = "update" /\ last.a \in AdapterIds

---------------------------------------------------------------------------
(* Claims *)

\* C1: no sensor key ever has more than one adapter created for it, also
\* when a notification is delivered before the host has iterated the
\* adapters setup handed it.
C1_OneAdapterPerKey ==
    \A a, b \in AdapterIds : adapters[a].key = adapters[b].key => a = b

\* C2: once the factory has handled the notification for a snapshot, a key
\* of that snapshot whose adapters have all had their removal requested
\* (the key had disappeared) has a new adapter.
C2_ReappearedKeyGetsNewAdapter ==
    (phase # "init" /\ 0 \notin pending) =>
        \A key \in DOMAIN data :
            (\E a \in AdapterIds : adapters[a].key = key /\ adapters[a].removals > 0)
            => \E b \in AdapterIds :
                   adapters[b].key = key /\ adapters[b].removals = 0 /\ Live(b)

\* C3: a notification handled by an adapter whose key is absent requests
\* exactly one removal (registry removal with a unique id, self-removal
\* without), neither recomputes the last-reset marker nor calls the base
\* handler, and over all notifications the adapter's removals stay one.
C3_ExactlyOneRemoval ==
    /\ (Handled /\ ~KeyPresent(last.a)) =>
           /\ last.removal =
                  (IF adapters[last.a].unique_id # "" THEN "registry" ELSE "self")
           /\ ~last.wrote
           /\ ~last.base
           /\ adapters[last.a].removals = 1
    /\ \A a \in AdapterIds : adapters[a].removals <= 1

\* C4: after a notification handled with the key present and a begin
\* timestamp that is missing or does not parse, the last-reset marker is
\* cleared.
C4_MissingBeginClearsMarker ==
    (/\ Handled
     /\ KeyPresent(last.a)
     /\ (~Truthy(SensorOf(last.a).begin) \/ parse_datetime(SensorOf(last.a).begin) = None))
    => adapters[last.a].last_reset = None

\* C5: after a notification handled with the key present and a begin
\* timestamp that parses to epoch value t, the last-reset marker is the
\* parsed timestamp when t > 86400 and is cleared when t <= 86400.
C5_ResetThreshold ==
    (/\ Handled
     /\ KeyPresent(last.a)
     /\ Truthy(SensorOf(last.a).begin)
     /\ parse_datetime(SensorOf(last.a).begin) # None)
    => LET parsed == parse_datetime(SensorOf(last.a).begin)
           t == timestamp(parsed[1])
       IN  /\ t > 86400 => adapters[last.a].last_reset = parsed
           /\ t <= 86400 => adapters[last.a].last_reset = None

\* C5 witness: a notification was handled with a begin timestamp of exactly
\* 86400 and the marker is cleared.
C5_Witness ==
    /\ Handled
    /\ KeyPresent(last.a)
    /\ SensorOf(last.a).begin = IsoBegin(1970, 1, 2, 0, 0, 0)
    /\ timestamp(parse_datetime(SensorOf(last.a).begin)[1]) = 86400
    /\ adapters[last.a].last_reset = None

\* C6: no entry point ends in an error: setup, new-sensor detection, update
\* handling and every property read complete normally.
C6_NothingRaises == ~last.raised

\* C7: native_value is the reference function of the table row the adapter
\* was created for: the reading times the row's factor, unavailable with
\* exactly one warning when outside the inclusive bounds, else the value
\* with no warning.
C7_NativeValueIsReference ==
    (last.op = "native_value" /\ ~last.raised) =>
        LET ref == ReferenceValue(adapters[last.a].unit0, SensorOf(last.a).value)
        IN  /\ last.result = ref.result
            /\ last.warnings = ref.warnings

\* C7 witness: a power-factor reading of 1.2 was read as unavailable with
\* one warning.
C7_Witness ==
    /\ last.op = "native_value"
    /\ ~last.raised
    /\ adapters[last.a].unit0 = "PF"
    /\ SensorOf(last.a).value = 12
    /\ last.result = None
    /\ last.warnings = 1

\* C8: a notification handled by the factory when every key of the snapshot
\* is already in the tracking set creates no adapter and leaves the tracking
\* set and the adapters unchanged.
C8_NoNewKeysIsNoOp ==
    [][(last'.op = "new_data" /\ DOMAIN data \subseteq created)
       => (created' = created /\ adapters' = adapters /\ last'.new = {})]_vars

\* C8 witness: the factory handled a notification for a non-empty snapshot
\* whose keys were all tracked, and created nothing.
C8_Witness ==
    /\ last.op = "new_data"
    /\ last.new = {}
    /\ DOMAIN data # {}
    /\ DOMAIN data \subseteq created
    /\ \A key \in DOMAIN data : \E a \in AdapterIds : adapters[a].key = key

\* C9: once the host has iterated the adapters of setup and the factory has
\* handled the notification for the current snapshot, every key of the
\* snapshot is tracked and has had an adapter created and handed to the host.
C9_EveryKeyHasAdapter ==
    (phase = "ready" /\ 0 \notin pending) =>
        \A key \in DOMAIN data :
            /\ key \in created
            /\ \E a \in AdapterIds :
                   adapters[a].key = key /\ adapters[a].status # "discarded"

\* C10: every adapter's description is the table entry of the unit its
\* sensor reported at creation, or the fallback description when that unit
\* is not in the table, whatever the sensor reports now; native_value keeps
\* applying that row.
C10_DescriptionBoundAtCreation ==
    /\ \A a \in AdapterIds :
           LET d == adapters[a].entity_description
               row == SpecTable(adapters[a].unit0)
           IN  IF adapters[a].unit0 \in TableUnits
               THEN /\ d = ENTITY_DESCRIPTION_KEY_MAP[adapters[a].unit0]
                    /\ d.key = adapters[a].unit0
                    /\ d.min_value = row.lo /\ d.max_value = row.hi
               ELSE /\ d.key = "base_sensor"
                    /\ d.unit = "" /\ d.device_class = ""
                    /\ d.value = None /\ d.min_value = None /\ d.max_value = None
    /\ (last.op = "native_value" /\ ~last.raised) =>
           last.result = ReferenceValue(adapters[last.a].unit0, SensorOf(last.a).value).result

\* C10 witness: an adapter created for a power-factor sensor that now
\* reports Amps was read, and the power-factor bounds made 1.2 unavailable.
C10_Witness ==
    /\ last.op = "native_value"
    /\ ~last.raised
    /\ adapters[last.a].unit0 = "PF"
    /\ SensorOf(last.a).unit = "Amps"
    /\ adapters[last.a].entity_description.key = "PF"
    /\ last.result = None

====
